---------------------------- MODULE Spec2Model ----------------------------
(***************************************************************************)
(* A model of the recipe backend: the token service (create_token,         *)
(* validate_token), registration and authentication against the credential *)
(* keys of the Redis store, the access guard (validate_header) and the     *)
(* recipe routes on top of the Redis JSON documents.                       *)
(*                                                                         *)
(* Spec      runs the HTTP handlers one request at a time against one      *)
(*           Redis key space; every Redis command of a request may raise   *)
(*           (store unreachable).                                          *)
(* SpecToken applies create_token and validate_token to tokens with and    *)
(*           without a ttl while the clock advances.                       *)
(* SpecConc  runs calls of add_recipes, register_user and authenticate_user*)
(*           side by side, one Redis command (one await) per step.         *)
(* SpecKeys  is Spec for a user whose name is another user's credential    *)
(*           key.                                                          *)
(***************************************************************************)
EXTENDS Integers, Sequences, FiniteSets, TLC

VARIABLES
    redis,      \* the Redis key space: key -> value
    issued,     \* the tokens handed out so far by login and register
    registered, \* per user, the passwords for which register answered with a token
    last,       \* the request handled last: its inputs and its answer
    nOps,       \* number of requests handled
    now,        \* the clock, in ticks
    atExpiry,   \* whether the installed jwt library rejects a token in the second of its exp
    minted,     \* SpecToken: the token create_token returned, with its inputs
    verdict,    \* SpecToken: the last answer of validate_token, with its inputs
                \* (the token, the minting it came from, the time)
    procs       \* SpecConc: per coroutine, the call it is in and where it stands

vars == <<redis, issued, registered, last, nOps, now, atExpiry, minted, verdict, procs>>

(***************************************************************************)
(* Bounds and input sets                                                   *)
(***************************************************************************)
MaxOps == 3
NumProcs == 2
MaxCalls == 2
MaxTime == 8
MaxTtl == 3
TicksPerSecond == 2

Users == {"alice", "bob"}
\* A user named like alice's credential key, and every user of some
\* specification.
KeyUsers == {"alice", "alice_password"}
AllUsers == Users \cup KeyUsers
Procs == 1..NumProcs
Passwords == {"pw1", "pw2"}
Salts == {"salt1", "salt2"}
RecipeIds == {"r1", "r2"}

\* What a client may send: the empty string is a legal value of every str
\* parameter and form field.
UserParams == Users \cup {""}
PasswordParams == Passwords \cup {""}
IdParams == RecipeIds \cup {""}

\* Python's None.
Null == "<None>"

BodySoup == [name |-> "Soup", description |-> "d1", category |-> "c1", imageUri |-> "img1"]
BodyCake == [name |-> "Cake", description |-> "d2", category |-> "c2", imageUri |-> "img2"]
Bodies == {BodySoup, BodyCake}

Recipe(id, b) ==
    [id |-> id, name |-> b.name, description |-> b.description,
     category |-> b.category, imageUri |-> b.imageUri]

Recipes == {Recipe(id, b) : id \in IdParams, b \in Bodies}

(***************************************************************************)
(* Token service                                                           *)
(***************************************************************************)
SECRET_KEY == "secret"
OtherKey == "not-the-secret"
NoExp == -1

\* A compact JWT: the key it was signed with and its claims.
Jwt(key, username, exp) == [kind |-> "jwt", key |-> key, username |-> username, exp |-> exp]

NoHeader == [kind |-> "none", key |-> "", username |-> "", exp |-> NoExp]
EmptyHeader == [kind |-> "empty", key |-> "", username |-> "", exp |-> NoExp]
Garbage == [kind |-> "garbage", key |-> "", username |-> "", exp |-> NoExp]

\* jwt.encode turns a datetime exp into whole seconds since the epoch.
ToSeconds(ticks) == ticks \div TicksPerSecond

\* expires_delta = None; the deltas themselves are ticks >= 0.
NoTtl == -1

create_token(username, expires_delta, t) ==
    IF expires_delta # NoTtl
    THEN Jwt(SECRET_KEY, username, ToSeconds(t + expires_delta))
    ELSE Jwt(SECRET_KEY, username, NoExp)

\* jwt.decode: the signature check, then the library's own expiry check. The
\* library release is not fixed by the repository: a release either rejects a
\* token in the second of its exp (lib) or only after that second.
JwtDecodeRaises(token, t, lib) ==
    \/ token.kind # "jwt"
    \/ token.key # SECRET_KEY
    \/ /\ token.exp # NoExp
       /\ IF lib
          THEN token.exp <= ToSeconds(t)
          ELSE token.exp < ToSeconds(t)

validate_token(token, t, lib) ==
    IF JwtDecodeRaises(token, t, lib)
    THEN [ok |-> FALSE, username |-> Null, exp |-> NoExp]
    ELSE IF token.exp # NoExp /\ token.exp * TicksPerSecond < t
         THEN [ok |-> FALSE, username |-> Null, exp |-> NoExp]
         ELSE [ok |-> TRUE, username |-> token.username, exp |-> token.exp]

(***************************************************************************)
(* Access guard                                                            *)
(***************************************************************************)
GuardOk == "ok"
MissingCredential == "400 Authorization header is missing"
InvalidToken == "401 Invalid token"
Forbidden == "403 Unauthorized user"

validate_headerNoOwner(header, user, t, lib) ==
    IF header.kind \in {"none", "empty"}
    THEN MissingCredential
    ELSE IF ~validate_token(header, t, lib).ok
         THEN InvalidToken
         ELSE GuardOk

validate_headerOwnerFirst(header, user, t, lib) ==
    IF header.kind \in {"none", "empty"}
    THEN MissingCredential
    ELSE IF header.username # user
         THEN Forbidden
         ELSE IF ~validate_token(header, t, lib).ok
              THEN InvalidToken
              ELSE GuardOk

validate_header(header, user, t, lib) ==
    IF header.kind \in {"none", "empty"}
    THEN MissingCredential
    ELSE LET v == validate_token(header, t, lib)
         IN  IF ~v.ok
             THEN InvalidToken
             ELSE IF v.username # user
                  THEN Forbidden
                  ELSE GuardOk

(***************************************************************************)
(* The Redis key space and its commands                                    *)
(***************************************************************************)
PasswordKey(user) == user \o "_password"
Keys == (AllUsers \cup {""}) \cup {PasswordKey(u) : u \in AllUsers \cup {""}}

Nil == [t |-> "nil"]
Str(v) == [t |-> "str", v |-> v]

\* A JSON object at a key. Its top-level members are the recipes stored under
\* their ids (recs) and, after a write of a recipe to the root path, that
\* recipe's own fields (flat holds the recipe, else nothing).
Doc(flat, recs) == [t |-> "json", flat |-> flat, recs |-> recs]
NoRecs == [i \in {} |-> Null]
EmptyDoc == Doc({}, NoRecs)

Hash(password, salt) == [pw |-> password, salt |-> salt]
NoHash == [pw |-> Null, salt |-> Null]
Verify(password, hashed) == hashed.pw = password

Raised(r) == [err |-> TRUE, r |-> r]
Done(r) == [err |-> FALSE, r |-> r]

\* EXISTS key
Exists(r, key) == r[key].t # "nil"

\* SET key value
Set(r, key, v) == [r EXCEPT ![key] = Str(v)]

\* JSON.SET key . doc
JsonSetRoot(r, key, doc) ==
    IF r[key].t = "str" THEN Raised(r) ELSE Done([r EXCEPT ![key] = doc])

\* JSON.SET key .<id> value: Path(f".{id}") of the empty id is "." itself,
\* the root path.
JsonSetPath(r, key, id, value) ==
    IF id = ""
    THEN JsonSetRoot(r, key, Doc({value}, NoRecs))
    ELSE IF r[key].t # "json"
         THEN Raised(r)
         ELSE LET d == r[key]
                  recs == [i \in (DOMAIN d.recs) \cup {id} |->
                              IF i = id THEN value ELSE d.recs[i]]
              IN  Done([r EXCEPT ![key] = Doc(d.flat, recs)])

\* JSON.DEL key .<id>
JsonDelPath(r, key, id) ==
    IF id = ""
    THEN [r EXCEPT ![key] = Nil]
    ELSE LET d == r[key]
             recs == [i \in (DOMAIN d.recs) \ {id} |-> d.recs[i]]
         IN  [r EXCEPT ![key] = Doc(d.flat, recs)]

(***************************************************************************)
(* RedisHandler. up says whether the command reached the store; a command  *)
(* that does not raises inside the handler's try block.                    *)
(***************************************************************************)
check_user(r, user, up) ==
    IF ~up THEN FALSE ELSE Exists(r, PasswordKey(user))

set_user_password(r, user, hashed, up) ==
    IF ~up THEN r ELSE Set(r, PasswordKey(user), hashed)

get_user_password(r, user, up) ==
    IF ~up \/ r[PasswordKey(user)].t # "str"
    THEN NoHash
    ELSE r[PasswordKey(user)].v

\* failAt: the first command of the call that does not reach the store (0:
\* all do). Answers the store afterwards and the commands that were sent.
add_recipes(r, user, value, failAt) ==
    IF failAt = 1
    THEN [r |-> r, cmds |-> 1, raised |-> TRUE]
    ELSE IF ~Exists(r, user)
         THEN IF failAt = 2
              THEN [r |-> r, cmds |-> 2, raised |-> TRUE]
              ELSE LET s == JsonSetRoot(r, user, EmptyDoc)
                   IN  IF s.err
                       THEN [r |-> r, cmds |-> 2, raised |-> TRUE]
                       ELSE IF failAt = 3
                            THEN [r |-> s.r, cmds |-> 3, raised |-> TRUE]
                            ELSE LET w == JsonSetPath(s.r, user, value.id, value)
                                 IN  [r |-> w.r, cmds |-> 3, raised |-> w.err]
         ELSE IF failAt = 2
              THEN [r |-> r, cmds |-> 2, raised |-> TRUE]
              ELSE LET w == JsonSetPath(r, user, value.id, value)
                   IN  [r |-> w.r, cmds |-> 2, raised |-> w.err]

\* The records of a document as the loop of get_recipes builds them; raises at
\* the first member that is not a dictionary.
get_recipes(r, user, failAt) ==
    IF failAt = 1 \/ r[user].t # "json" \/ r[user].flat # {}
    THEN {}
    ELSE LET recs == r[user].recs
         IN  {[recs[key] EXCEPT !.id = key] : key \in DOMAIN recs}

delete_recipe(r, user, recipe_id, failAt) ==
    IF failAt = 1
    THEN [r |-> r, cmds |-> 1, ret |-> Null]
    ELSE LET d == r[user]
             found == IF d.t # "json" THEN FALSE
                      ELSE IF recipe_id = ""
                           THEN d # EmptyDoc
                           ELSE recipe_id \in DOMAIN d.recs
         IN  IF ~found
             THEN [r |-> r, cmds |-> 1, ret |-> Null]
             ELSE IF failAt = 2
                  THEN [r |-> r, cmds |-> 2, ret |-> Null]
                  ELSE [r |-> JsonDelPath(r, user, recipe_id), cmds |-> 2,
                        ret |-> IF recipe_id # ""
                                THEN d.recs[recipe_id].imageUri
                                ELSE IF d.flat # {}
                                     THEN (CHOOSE f \in d.flat : TRUE).imageUri
                                     ELSE Null]

(***************************************************************************)
(* services/auth.py                                                        *)
(***************************************************************************)
NoToken == NoHeader

register_user(r, username, password, salt, down, t) ==
    IF check_user(r, username, 1 \notin down)
    THEN [r |-> r, raised |-> TRUE, token |-> NoToken, cmds |-> 1]
    ELSE [r |-> set_user_password(r, username, Hash(password, salt), 2 \notin down),
          raised |-> FALSE, token |-> create_token(username, NoTtl, t), cmds |-> 2]

authenticate_user(r, username, password, down, t) ==
    LET h == get_user_password(r, username, 1 \notin down)
    IN  IF h # NoHash /\ Verify(password, h)
        THEN create_token(username, NoTtl, t)
        ELSE NoToken

(***************************************************************************)
(* The HTTP handlers                                                       *)
(***************************************************************************)
NoRecipe == Recipe(Null, [name |-> Null, description |-> Null, category |-> Null,
                          imageUri |-> Null])

\* The fields of last; a handler fills in the ones it reads and answers.
Idle ==
    [op |-> "none", user |-> Null, pw |-> Null, header |-> NoHeader,
     recipe |-> NoRecipe, rid |-> Null, failed |-> {}, guard |-> Null,
     cmds |-> 0, status |-> 0, detail |-> Null, token |-> NoToken,
     ret |-> Null, listed |-> {}]

\* The Authorization headers a client can send: none, an empty one, one that
\* is no JWT, a JWT signed with another key, and the tokens handed out.
Headers ==
    {NoHeader, EmptyHeader, Garbage} \cup {Jwt(OtherKey, u, NoExp) : u \in Users}
        \cup issued

Answer(rec) ==
    /\ last' = rec
    /\ nOps' = nOps + 1
    /\ UNCHANGED <<now, atExpiry, minted, verdict, procs>>

\* routes/auth.py login
login(username, password, down) ==
    /\ nOps < MaxOps
    /\ LET token == authenticate_user(redis, username, password, down, now)
           base == [Idle EXCEPT !.op = "login", !.user = username, !.pw = password,
                                !.failed = down, !.cmds = 1]
       IN  IF token # NoToken
           THEN /\ issued' = issued \cup {token}
                /\ Answer([base EXCEPT !.status = 200, !.token = token])
           ELSE /\ issued' = issued
                /\ Answer([base EXCEPT !.status = 401, !.detail = "Invalid credentials"])
    /\ UNCHANGED <<redis, registered>>

\* routes/auth.py register
register(username, password) ==
    /\ nOps < MaxOps
    /\ LET base == [Idle EXCEPT !.op = "register", !.user = username, !.pw = password]
       IN  IF username = "" \/ password = ""
           THEN /\ Answer([base EXCEPT !.status = 400,
                                       !.detail = "Username and password are required"])
                /\ UNCHANGED <<redis, issued, registered>>
           ELSE \E salt \in Salts, down \in SUBSET {1, 2} :
                   LET res == register_user(redis, username, password, salt, down, now)
                       rec == [base EXCEPT !.cmds = res.cmds, !.failed = down]
                   IN  /\ down \subseteq 1..res.cmds
                       /\ IF res.raised
                          THEN /\ Answer([rec EXCEPT !.status = 400,
                                                     !.detail = "Username already exists"])
                               /\ UNCHANGED <<redis, issued, registered>>
                          ELSE /\ redis' = res.r
                               /\ issued' = issued \cup {res.token}
                               /\ registered' = [registered EXCEPT
                                                    ![username] = @ \cup {password}]
                               /\ Answer([rec EXCEPT !.status = 201,
                                                     !.token = res.token])

\* The part the three recipe routes share: the user parameter, then the guard.
\* Answers GuardOk or the refusal.
AdmitWithoutGuard(user, header) ==
    IF user = "" THEN "400 User Param is missing" ELSE GuardOk

Admit(user, header) ==
    IF user = ""
    THEN "400 User Param is missing"
    ELSE validate_header(header, user, now, atExpiry)

Refuse(base, why) ==
    /\ Answer([base EXCEPT !.guard = IF base.user = "" THEN Null ELSE why,
                           !.status = IF why = InvalidToken THEN 401
                                      ELSE IF why = Forbidden THEN 403 ELSE 400,
                           !.detail = why])
    /\ UNCHANGED <<redis, issued, registered>>

\* routes/recipes.py get_recipes
get_recipes_route(user, header) ==
    /\ nOps < MaxOps
    /\ LET base == [Idle EXCEPT !.op = "get", !.user = user, !.header = header]
           why == Admit(user, header)
       IN  IF why # GuardOk
           THEN Refuse(IF user = "" THEN [base EXCEPT !.header = NoHeader] ELSE base, why)
           ELSE \E failAt \in 0..1 :
                   /\ Answer([base EXCEPT !.guard = GuardOk, !.cmds = 1,
                                          !.failed = {failAt} \ {0},
                                          !.status = 200,
                                          !.listed = get_recipes(redis, user, failAt)])
                   /\ UNCHANGED <<redis, issued, registered>>

\* routes/recipes.py create_recipe
create_recipe(user, header) ==
    /\ nOps < MaxOps
    /\ LET base == [Idle EXCEPT !.op = "create", !.user = user, !.header = header]
           why == Admit(user, header)
       IN  IF why # GuardOk
           THEN Refuse(IF user = "" THEN [base EXCEPT !.header = NoHeader] ELSE base, why)
           ELSE \E recipe \in Recipes, failAt \in 0..3 :
                   LET res == add_recipes(redis, user, recipe, failAt)
                   IN  /\ failAt <= res.cmds
                       /\ redis' = res.r
                       /\ Answer([base EXCEPT !.guard = GuardOk, !.recipe = recipe,
                                              !.cmds = res.cmds,
                                              !.failed = {failAt} \ {0},
                                              !.status = 201,
                                              !.detail = "Recipe added successfully"])
                       /\ UNCHANGED <<issued, registered>>

\* routes/recipes.py delete_recipe
delete_recipe_route(user, header) ==
    /\ nOps < MaxOps
    /\ LET base == [Idle EXCEPT !.op = "delete", !.user = user, !.header = header]
           why == Admit(user, header)
       IN  IF why # GuardOk
           THEN Refuse(IF user = "" THEN [base EXCEPT !.header = NoHeader] ELSE base, why)
           ELSE \E recipe_id \in IdParams, failAt \in 0..2 :
                   LET res == delete_recipe(redis, user, recipe_id, failAt)
                   IN  /\ failAt <= res.cmds
                       /\ redis' = res.r
                       /\ Answer([base EXCEPT !.guard = GuardOk, !.rid = recipe_id,
                                              !.cmds = res.cmds,
                                              !.failed = {failAt} \ {0},
                                              !.ret = res.ret,
                                              !.status = 200,
                                              !.detail = "Recipe deleted successfully"])
                       /\ UNCHANGED <<issued, registered>>

IdleProc ==
    [pc |-> "idle", op |-> "none", user |-> Null, pw |-> Null, recipe |-> NoRecipe,
     status |-> 0, token |-> NoToken, calls |-> 0]

NoMint == [token |-> NoToken, at |-> 0, ttl |-> NoTtl]
NoVerdict == [token |-> NoToken, of |-> NoMint, at |-> 0, ok |-> FALSE,
              username |-> Null]

Init ==
    /\ redis = [k \in Keys |-> Nil]
    /\ issued = {}
    /\ registered = [u \in AllUsers |-> {}]
    /\ last = Idle
    /\ nOps = 0
    /\ now = 0
    /\ atExpiry \in BOOLEAN
    /\ minted = NoMint
    /\ verdict = NoVerdict
    /\ procs = [p \in Procs |-> IdleProc]

Login == \E u \in Users, p \in Passwords, down \in SUBSET {1} : login(u, p, down)

Register == \E u \in UserParams, p \in PasswordParams : register(u, p)

GetRecipes ==
    \E u \in UserParams, h \in Headers :
        get_recipes_route(u, h)

CreateRecipe ==
    \E u \in UserParams, h \in Headers :
        create_recipe(u, h)

DeleteRecipe ==
    \E u \in UserParams, h \in Headers :
        delete_recipe_route(u, h)

Next == Login \/ Register \/ GetRecipes \/ CreateRecipe \/ DeleteRecipe

Spec == Init /\ [][Next]_vars

(***************************************************************************)
(* The token service on its own: tokens with and without a ttl, validated  *)
(* as the clock advances.                                                  *)
(***************************************************************************)
Tick ==
    /\ now < MaxTime
    /\ now' = now + 1
    /\ UNCHANGED <<redis, issued, registered, last, nOps, atExpiry, minted, verdict, procs>>

Mint ==
    \E u \in Users, ttl \in {NoTtl} \cup (0..MaxTtl) :
        /\ minted' = [token |-> create_token(u, ttl, now), at |-> now, ttl |-> ttl]
        /\ UNCHANGED <<redis, issued, registered, last, nOps, now, atExpiry, verdict, procs>>

\* validate_token on the minted token, on the same claims signed with another
\* key, and on a string that is no JWT.
Validate ==
    \E token \in {minted.token, [minted.token EXCEPT !.key = OtherKey], Garbage} :
        /\ minted # NoMint
        /\ LET v == validate_token(token, now, atExpiry)
           IN  verdict' = [token |-> token, of |-> minted, at |-> now, ok |-> v.ok,
                           username |-> v.username]
        /\ UNCHANGED <<redis, issued, registered, last, nOps, now, atExpiry, minted, procs>>

NextToken == Tick \/ Mint \/ Validate

SpecToken == Init /\ [][NextToken]_vars

(***************************************************************************)
(* Concurrent calls. The handlers are coroutines on one event loop (and    *)
(* the store is shared by every worker): a call gives way at each await,   *)
(* that is at each Redis command, and the commands of other calls may run  *)
(* in between. Every command reaches the store here, and recipes carry     *)
(* proper ids, so that what goes wrong is due to the interleaving alone.   *)
(***************************************************************************)
ProperRecipes == {Recipe(id, b) : id \in RecipeIds, b \in Bodies}

\* p enters a new call; what the previous call answered is dropped.
Enter(p, op, user, pw, recipe, pc) ==
    [IdleProc EXCEPT !.pc = pc, !.op = op, !.user = user, !.pw = pw,
                     !.recipe = recipe, !.calls = procs[p].calls + 1]

CanCall(p) == procs[p].pc \in {"idle", "done"} /\ procs[p].calls < MaxCalls

ConcFrame == UNCHANGED <<issued, registered, last, nOps, now, atExpiry, minted, verdict>>

\* add_recipes is called
CallAddRecipes ==
    \E p \in Procs, user \in Users, value \in ProperRecipes :
        /\ CanCall(p)
        /\ procs' = [procs EXCEPT ![p] = Enter(p, "add", user, Null, value, "add_exists")]
        /\ UNCHANGED redis
        /\ ConcFrame

\* add_recipes: await exists(user)
AddExists ==
    \E p \in Procs :
        /\ procs[p].pc = "add_exists"
        /\ procs' = [procs EXCEPT ![p].pc = IF Exists(redis, procs[p].user)
                                            THEN "add_set" ELSE "add_init"]
        /\ UNCHANGED redis
        /\ ConcFrame

\* add_recipes: await json().set(user, Path.root_path(), {})
AddInit ==
    \E p \in Procs :
        /\ procs[p].pc = "add_init"
        /\ LET s == JsonSetRoot(redis, procs[p].user, EmptyDoc)
           IN  /\ redis' = s.r
               /\ procs' = [procs EXCEPT ![p].pc = IF s.err THEN "done" ELSE "add_set",
                                         ![p].status = IF s.err THEN 500 ELSE 0]
        /\ ConcFrame

\* add_recipes: await json().set(user, Path(f".{value['id']}"), value)
AddSet ==
    \E p \in Procs :
        /\ procs[p].pc = "add_set"
        /\ LET w == JsonSetPath(redis, procs[p].user, procs[p].recipe.id, procs[p].recipe)
           IN  /\ redis' = w.r
               /\ procs' = [procs EXCEPT ![p].pc = "done",
                                         ![p].status = IF w.err THEN 500 ELSE 201]
        /\ ConcFrame

\* register_user is called
CallRegister ==
    \E p \in Procs, username \in Users, password \in Passwords :
        /\ CanCall(p)
        /\ procs' = [procs EXCEPT ![p] = Enter(p, "register", username, password,
                                               NoRecipe, "reg_check")]
        /\ UNCHANGED redis
        /\ ConcFrame

\* register_user: await check_user(username)
RegCheck ==
    \E p \in Procs :
        /\ procs[p].pc = "reg_check"
        /\ procs' = [procs EXCEPT
                        ![p].pc = IF check_user(redis, procs[p].user, TRUE)
                                  THEN "done" ELSE "reg_set",
                        ![p].status = IF check_user(redis, procs[p].user, TRUE)
                                      THEN 400 ELSE 0]
        /\ UNCHANGED redis
        /\ ConcFrame

\* register_user: the hash, await set_user_password(username, hashed), the token
RegSet ==
    \E p \in Procs, salt \in Salts :
        /\ procs[p].pc = "reg_set"
        /\ redis' = set_user_password(redis, procs[p].user,
                                      Hash(procs[p].pw, salt), TRUE)
        /\ procs' = [procs EXCEPT ![p].pc = "done", ![p].status = 201,
                                  ![p].token = create_token(procs[p].user, NoTtl, now)]
        /\ ConcFrame

\* authenticate_user: one command, so one step
Authenticate ==
    \E p \in Procs, username \in Users, password \in Passwords :
        /\ CanCall(p)
        /\ LET token == authenticate_user(redis, username, password, {}, now)
           IN  procs' = [procs EXCEPT ![p] =
                            [Enter(p, "login", username, password, NoRecipe, "done")
                                EXCEPT !.token = token,
                                       !.status = IF token # NoToken THEN 200 ELSE 401]]
        /\ UNCHANGED redis
        /\ ConcFrame

NextConc ==
    \/ CallAddRecipes \/ AddExists \/ AddInit \/ AddSet
    \/ CallRegister \/ RegCheck \/ RegSet
    \/ Authenticate

SpecConc == Init /\ [][NextConc]_vars

(***************************************************************************)
(* The handlers of Spec for two users, one of them named like the other's  *)
(* credential key: "alice_password" may register like any other name       *)
(* (register only refuses empty fields).                                   *)
(***************************************************************************)
KeysLogin == \E u \in KeyUsers, p \in Passwords, down \in SUBSET {1} : login(u, p, down)

KeysRegister == \E u \in KeyUsers, p \in Passwords : register(u, p)

KeysGetRecipes == \E u \in KeyUsers, h \in {NoHeader} \cup issued : get_recipes_route(u, h)

KeysCreateRecipe == \E u \in KeyUsers, h \in {NoHeader} \cup issued : create_recipe(u, h)

KeysDeleteRecipe == \E u \in KeyUsers, h \in {NoHeader} \cup issued : delete_recipe_route(u, h)

NextKeys ==
    KeysLogin \/ KeysRegister \/ KeysGetRecipes \/ KeysCreateRecipe \/ KeysDeleteRecipe

SpecKeys == Init /\ [][NextKeys]_vars

(***************************************************************************)
(* Properties                                                              *)
(***************************************************************************)
RecipeOps == {"get", "create", "delete"}

\* A header that carries a token signed with the service's key.
Genuine(h) == h.kind = "jwt" /\ h.key = SECRET_KEY

\* The recipes stored under their ids in user's document.
Stored(r, user) == IF r[user].t = "json" THEN DOMAIN r[user].recs ELSE {}

C1_StoreOnlyBehindGuard ==
    last.op \in RecipeOps =>
        /\ last.cmds > 0 =>
              /\ last.guard = GuardOk
              /\ Genuine(last.header)
              /\ last.header.username = last.user
              /\ last.header \in issued
        /\ last.guard # GuardOk =>
              /\ last.cmds = 0
              /\ last.listed = {}
              /\ last.status \in {400, 401, 403}

C1_RefusedLeavesStore ==
    [][last'.op \in RecipeOps /\ last'.guard # GuardOk => redis' = redis]_vars

\* C1: a recipe route sends a command to the store for user u only after the
\* guard has accepted, in that request, a token of the service whose username
\* is u; a request the guard (or the user parameter check) refused sends no
\* command, lists nothing and leaves the store as it was.
C1_GuardBeforeStore == []C1_StoreOnlyBehindGuard /\ C1_RefusedLeavesStore

\* A create that the guard let through and that wrote the user's document.
C1_Witness ==
    /\ last.op = "create"
    /\ last.guard = GuardOk
    /\ last.cmds = 3
    /\ last.failed = {}
    /\ last.recipe.id \in Stored(redis, last.user)

\* C2: the guard answers in a fixed order: no (or an empty) header is
\* MissingCredential; otherwise a token validate_token rejects is InvalidToken;
\* otherwise a username other than the expected one is Forbidden; and it
\* accepts only a token of the service issued to the expected user.
C2_GuardOrder ==
    (last.op \in RecipeOps /\ last.user # "") =>
        LET h == last.header
        IN  /\ h.kind \in {"none", "empty"} => last.guard = MissingCredential
            /\ (h.kind \notin {"none", "empty"} /\ ~Genuine(h)) =>
                  last.guard = InvalidToken
            /\ (Genuine(h) /\ h.username # last.user) => last.guard = Forbidden
            /\ (Genuine(h) /\ h.username = last.user) => last.guard = GuardOk
            /\ last.guard \in {MissingCredential, InvalidToken, Forbidden, GuardOk}

\* A token issued to one user, presented for the other: Forbidden.
C2_Witness ==
    /\ last.op \in RecipeOps
    /\ last.header \in issued
    /\ last.header.username = "alice"
    /\ last.user = "bob"
    /\ last.guard = Forbidden
    /\ last.status = 403

\* C3: once register(username, password) has answered with a token, a login
\* with the same credentials whose command reaches the store answers 200 with
\* a token that validates with that username.
C3_LoginAfterRegister ==
    (last.op = "login" /\ last.failed = {} /\ last.pw \in registered[last.user]) =>
        /\ last.status = 200
        /\ validate_token(last.token, now, atExpiry).ok
        /\ validate_token(last.token, now, atExpiry).username = last.user

\* C4: a register for a username whose credential record exists issues no
\* token and leaves the store unchanged, and answers 400 "Username already
\* exists" (when its EXISTS command reached the store), whatever the password.
C4_DuplicateRegister ==
    [][(/\ last'.op = "register"
        /\ last'.user # ""
        /\ last'.pw # ""
        /\ Exists(redis, PasswordKey(last'.user)))
       => /\ last'.token = NoToken
          /\ redis' = redis
          /\ 1 \notin last'.failed =>
                (last'.status = 400 /\ last'.detail = "Username already exists")]_vars

\* C5: login and register hand out a token for a username only to a caller
\* who presented the password of that username's credential record; a login
\* without a token answers 401.
C5_TokenNeedsPassword ==
    /\ (last.op \in {"login", "register"} /\ last.token # NoToken) =>
          /\ redis[PasswordKey(last.user)].t = "str"
          /\ Verify(last.pw, redis[PasswordKey(last.user)].v)
    /\ (last.op = "login" /\ last.token = NoToken) => last.status = 401

C7_AddThenList ==
    [][(last'.op = "create" /\ last'.guard = GuardOk /\ last'.failed = {})
       => LET u == last'.user
              r == last'.recipe
              after == get_recipes(redis', u, 0)
          IN  /\ Cardinality({x \in after : x.id = r.id}) = 1
              /\ r \in after
              /\ \A x \in get_recipes(redis, u, 0) : x.id # r.id => x \in after]_vars

\* C8: an authorized DELETE answers 200 only when a record was stored under
\* the id and is removed, and 404 when no record is stored under the id.
C8_DeleteStatus ==
    [][(last'.op = "delete" /\ last'.guard = GuardOk)
       => LET existed == last'.rid \in Stored(redis, last'.user)
          IN  /\ last'.status = 200 =>
                    (existed /\ last'.rid \notin Stored(redis', last'.user))
              /\ ~existed => last'.status = 404]_vars

\* C9: a delete whose commands all reached the store removes, for an id a
\* record is stored under, exactly that entry and returns its imageUri; for any
\* other id it returns None and leaves the store as it was.
C9_DeleteFrame ==
    [][(last'.op = "delete" /\ last'.guard = GuardOk /\ last'.failed = {})
       => LET u == last'.user
              i == last'.rid
          IN  IF i \in Stored(redis, u)
              THEN /\ last'.ret = redis[u].recs[i].imageUri
                   /\ redis' = [redis EXCEPT ![u] =
                                   Doc(@.flat, [k \in (DOMAIN @.recs) \ {i} |-> @.recs[k]])]
                   /\ get_recipes(redis', u, 0) =
                          {x \in get_recipes(redis, u, 0) : x.id # i}
              ELSE /\ last'.ret = Null
                   /\ redis' = redis]_vars

\* C10: a login or register one of whose commands did not reach the store
\* answers with an error that is neither success nor "no such user" /
\* "duplicate user"; and register hands out a token only when the hash of the
\* password is stored.
C10_StoreFailureReported ==
    last.op \in {"login", "register"} =>
        /\ last.failed # {} =>
              /\ last.status \notin {200, 201}
              /\ last.detail \notin {"Invalid credentials", "Username already exists"}
        /\ (last.op = "register" /\ last.token # NoToken) =>
              /\ redis[PasswordKey(last.user)].t = "str"
              /\ redis[PasswordKey(last.user)].v.pw = last.pw

\* p's call of op has returned with status.
Returned(p, op, status) ==
    procs[p].pc = "done" /\ procs[p].op = op /\ procs[p].status = status

\* C11: once two add_recipes calls for the same user with different recipe
\* ids have both completed, under any interleaving of their commands, both
\* recipes are in the user's collection.
C11_BothRecipesStored ==
    \A p, q \in Procs :
        (/\ p # q
         /\ Returned(p, "add", 201)
         /\ Returned(q, "add", 201)
         /\ procs[p].user = procs[q].user
         /\ procs[p].recipe.id # procs[q].recipe.id)
        => {procs[p].recipe.id, procs[q].recipe.id} \subseteq Stored(redis, procs[p].user)

\* No two register_user calls for one username have both answered a token.
C12_NotBothSucceed ==
    \A p, q \in Procs :
        (p # q /\ Returned(p, "register", 201) /\ Returned(q, "register", 201))
        => procs[p].user # procs[q].user

\* A stored hashed password is neither changed nor removed by a step.
C12_HashKept ==
    \A u \in Users :
        redis[PasswordKey(u)].t = "str" => redis'[PasswordKey(u)] = redis[PasswordKey(u)]

\* C12: once a credential record is stored for a username, its hashed
\* password never changes and is never removed under any interleaving of
\* register and authenticate calls, and two concurrent register calls for
\* one username never both succeed.
C12_CredentialStable == []C12_NotBothSucceed /\ [][C12_HashKept]_vars

\* The request answered by this step was made for u and leaves what is stored
\* for every other user v as it was: v's credential record and v's collection.
C13_OthersKept ==
    \A u, v \in KeyUsers :
        (u # v /\ last'.user = u /\ nOps' = nOps + 1)
        => /\ redis'[PasswordKey(v)] = redis[PasswordKey(v)]
           /\ redis'[v] = redis[v]

\* C13: for distinct usernames u and v, v being u followed by "_password"
\* included, every register, login, add, list and delete request for u
\* leaves v's credential record and v's recipe collection unchanged.
C13_UserFrame == [][C13_OthersKept]_vars

=============================================================================
